---- MODULE Spec2Model ----
(***************************************************************************)
(* A model of the pilet release pipeline of piral-cli: publishPilet and    *)
(* getFiles (src/src/tooling/piral-cli/src/apps/publish-pilet.ts).         *)
(*                                                                         *)
(* publishPilet is an async function.  Every `await` of an external        *)
(* operation is a suspension point: the call is issued by one action and   *)
(* its completion (a returned value, or a rejection) is another action     *)
(* that runs the continuation up to the next await.  Operations issued     *)
(* together under Promise.all are `tasks` that complete in any order.      *)
(***************************************************************************)
EXTENDS Integers, Sequences, FiniteSets, TLC

\* Bounds of the model.
MaxSources == 2      \* longest `source` array given in the options
MaxFiles == 2        \* most artifacts one run resolves
MaxConverts == 2     \* most components converted from one lazy loader
MaxCalls == 3        \* most calls of mount, update and unmount made on them
MaxStartups == 4     \* most calls of startup

VARIABLES
  pc,                 \* where publishPilet is suspended, or how it ended
  url, fresh, from, cert, sources,   \* locals of publishPilet (destructured options)
  ca,                 \* the loaded certificate
  tasks,              \* the operations issued under the pending Promise.all
  files,              \* the resolved artifacts
  i,                  \* 1-based index of the loop `for (const file of files)`
  content,            \* what the read of the current artifact resolved with
  successfulUploads,
  attempt,            \* per artifact: how far its read and upload have got
  logs,               \* the messages reported through progress/log/logDone/fail
  error,              \* what publishPilet rejected with
  calls,              \* how often each external operation has been invoked
  probe,              \* inputs and outputs of the pure-function checks
  apiKey, interactive,               \* locals of publishPilet (destructured options)
  exists,             \* what `await checkExists(cert)` resolved with
  posts,              \* the arguments of the calls of postFile, in call order
  disk                \* the artifact files on disk

vars == <<pc, url, fresh, from, cert, sources, ca, tasks, files, i, content,
          successfulUploads, attempt, logs, error, calls, probe,
          apiKey, interactive, exists, posts, disk>>

----------------------------------------------------------------------------
\* Values

U == "undefined"
Truthy(v) == v # U /\ v # ""

\* `a ?? b`
Coalesce(a, b) == IF a = U THEN b ELSE a
\* a destructuring default `{ x = d } = options`
Default(v, d) == IF v = U THEN d ELSE v

publishPiletDefaults ==
  [url |-> U, apiKey |-> U, fresh |-> FALSE, cert |-> U, from |-> "local",
   interactive |-> "false"]

\* resolve(process.cwd(), baseDir)
fullBase == "base"

\* A path: the directory, and the file named after the source it came from.
File(dir, src, k) == [dir |-> dir, src |-> src, k |-> k]
NoFile == File("", "", 0)

\* path.relative(from, to)
relative(base, to) ==
  File(IF to.dir = base THEN "." ELSE "../" \o to.dir, to.src, to.k)

SourceName(n) == "s" \o ToString(n)

\* options.source: absent, one string, or an array of strings
SourceOptions ==
  {[tag |-> "undefined", items |-> <<>>], [tag |-> "string", items |-> <<SourceName(1)>>]}
    \cup {[tag |-> "array", items |-> [k \in 1..n |-> SourceName(k)]] : n \in 0..MaxSources}

\* source = fresh ? './src/index' : '*.tgz'; sources = Array.isArray(source) ? source : [source]
SourcesOf(opt, isFresh) ==
  IF opt.tag = "undefined" THEN <<IF isFresh THEN "./src/index" ELSE "*.tgz">>
  ELSE opt.items

Entry(fn, code, file) == [fn |-> fn, code |-> code, file |-> file]
Progress(lg, text) == Append(lg, Entry("progress", text, NoFile))
Log(lg, code, file) == Append(lg, Entry("log", code, file))

Ops == {"checkExists", "readBinary:cert", "matchAnyPilet", "triggerBuildPilet",
        "createPiletPackage", "matchFiles", "findNpmTarball", "downloadFile",
        "readBinary:file", "postFile"}
Bump(c, op, n) == [c EXCEPT ![op] = @ + n]

Task(op, arg, trust) == [op |-> op, st |-> "pending", arg |-> arg, ca |-> trust, res |-> <<>>]

\* The files the fulfilled tasks have produced so far.
RECURSIVE Produced(_)
Produced(ts) ==
  IF ts = <<>> THEN 0
  ELSE (IF Head(ts).st = "fulfilled" /\ Head(ts).op # "findNpmTarball" /\ Head(ts).op # "triggerBuildPilet"
        THEN Len(Head(ts).res) ELSE 0) + Produced(Tail(ts))

\* allFiles.reduce((result, files) => [...result, ...files], [])
RECURSIVE Reduce(_, _)
Reduce(allFiles, result) ==
  IF allFiles = <<>> THEN result
  ELSE Reduce(Tail(allFiles), result \o Head(allFiles))

\* the spreads swapped: [...files, ...result]
RECURSIVE ReduceSwapped(_, _)
ReduceSwapped(allFiles, result) ==
  IF allFiles = <<>> THEN result
  ELSE ReduceSwapped(Tail(allFiles), Head(allFiles) \o result)
flattenSwapped(allFiles) == ReduceSwapped(allFiles, <<>>)

flatten(allFiles) == Reduce(allFiles, <<>>)

----------------------------------------------------------------------------
\* The upload loop and the verdict (publishPilet, lines 245-282).  Messages
\* with the code generalDebug_0003 are diagnostics and are not recorded.

\* PostFileResult: what postFile resolves with
Statuses == {200, 201, 402, 409, 413, 500}
Results == [success : BOOLEAN, status : Statuses, response : {"", "body"}]

\* the status is looked at before the success flag
ClassifyStatusFirst(result) ==
  IF result.status = 402 THEN "failedToUploadPayment_0161"
  ELSE IF result.status = 409 THEN "failedToUploadVersion_0162"
  ELSE IF result.status = 413 THEN "failedToUploadSize_0163"
  ELSE IF result.success THEN "success"
  ELSE "failedToUpload_0062"

\* if (result.success) .. else if (result.status === 402) .. else ..
Classify(result) ==
  IF result.success THEN "success"
  ELSE IF result.status = 402 THEN "failedToUploadPayment_0161"
  ELSE IF result.status = 409 THEN "failedToUploadVersion_0162"
  ELSE IF result.status = 413 THEN "failedToUploadSize_0163"
  ELSE "failedToUpload_0062"

\* the content is not looked at
HasContentAlways(c) == TRUE

\* if (content)
HasContent(c) == Truthy(c)

\* only an absent URL is refused, an empty one passes
UrlMissingAbsentOnly(u) == u = U

\* if (!url)
UrlMissing(u) == ~Truthy(u)

\* the check for an empty list is left out
NoArtifactsNever(fs) == FALSE
NoEntriesNever(allEntries) == FALSE

\* if (files.length === 0)
NoArtifacts(fs) == Len(fs) = 0

\* if (allEntries.length === 0)
NoEntries(allEntries) == Len(allEntries) = 0

\* success as soon as one artifact was uploaded
AllUploadedAny(fs, su) == Len(su) > 0

\* files.length === successfulUploads.length
AllUploaded(fs, su) == Len(fs) = Len(su)

\* unshift in place of push
pushFront(su, file) == <<file>> \o su

\* successfulUploads.push(file)
push(su, file) == Append(su, file)

\* a failed artifact ends the loop (a `break` in the failure branches)
NextIndexBreak(k, ok) == IF ok THEN k + 1 ELSE Len(files) + 1

\* a failed artifact is tried again
NextIndexRetry(k, ok) == IF ok THEN k + 1 ELSE k

\* for (const file of files): the body holds no break, return or continue, so
\* the iteration after artifact k is k + 1 whatever its outcome was.
NextIndex(k, ok) == k + 1

\* fail(code): reports the message and throws, so publishPilet rejects with it.
fail(code, lg) ==
  /\ pc' = "rejected"
  /\ error' = code
  /\ logs' = Append(lg, Entry("fail", code, NoFile))

\* lines 278-282
verdict(fs, su, lg) ==
  IF AllUploaded(fs, su)
  THEN /\ pc' = "resolved"
       /\ error' = error
       /\ logs' = Append(lg, Entry("logDone", "Pilet(s) published successfully!", NoFile))
  ELSE fail("failedUploading_0064", lg)

\* The head of the loop for artifact k: lines 245-248 up to `await readBinary`,
\* or, past the last artifact, the verdict.
iterate(k, fs, su, at, cs, lg) ==
  /\ i' = k
  /\ content' = U
  /\ successfulUploads' = su
  /\ IF k <= Len(fs)
     THEN /\ pc' = "readBinary"
          /\ attempt' = [at EXCEPT ![k] = "reading"]
          /\ calls' = Bump(cs, "readBinary:file", 1)
          /\ logs' = lg
          /\ error' = error
     ELSE /\ attempt' = at
          /\ calls' = cs
          /\ verdict(fs, su, lg)

\* postFile(url, mode, apiKey, content, fields, headers, ca, interactive), called
\* for the artifact at position k
PostFileArgs(k, c) ==
  [k |-> k, url |-> url, apiKey |-> apiKey, content |-> c, ca |-> ca,
   interactive |-> interactive]

\* postFile issued and not awaited: the loop goes on while the upload runs
callPostFileNoAwait(k, c, fs, su, at, cs, lg) ==
  /\ posts' = Append(posts, PostFileArgs(k, c))
  /\ iterate(k + 1, fs, su, [at EXCEPT ![k] = "posting"], Bump(cs, "postFile", 1),
             Append(lg, Entry("progress", "Publishing", fs[k])))

\* the progress message does not name the artifact
callPostFileUnnamed(k, c, fs, su, at, cs, lg) ==
  /\ pc' = "postFile"
  /\ i' = k
  /\ content' = c
  /\ successfulUploads' = su
  /\ attempt' = [at EXCEPT ![k] = "posting"]
  /\ calls' = Bump(cs, "postFile", 1)
  /\ posts' = Append(posts, PostFileArgs(k, c))
  /\ logs' = Append(lg, Entry("progress", "Publishing", NoFile))
  /\ error' = error

\* lines 251-252: progress(..), then `await postFile(..)`
callPostFile(k, c, fs, su, at, cs, lg) ==
  /\ pc' = "postFile"
  /\ i' = k
  /\ content' = c
  /\ successfulUploads' = su
  /\ attempt' = [at EXCEPT ![k] = "posting"]
  /\ calls' = Bump(cs, "postFile", 1)
  /\ posts' = Append(posts, PostFileArgs(k, c))
  /\ logs' = Append(lg, Entry("progress", "Publishing", fs[k]))
  /\ error' = error

\* readBinary(fullBase, fileName) resolves with the content, or with nothing
readBinaryReturn ==
  /\ pc = "readBinary"
  /\ \E c \in {U, "bytes"} :
       IF HasContent(c)
       THEN callPostFile(i, c, files, successfulUploads, attempt, calls, logs)
       ELSE /\ posts' = posts
            /\ iterate(NextIndex(i, FALSE), files, successfulUploads,
                       [attempt EXCEPT ![i] = "unreadable"], calls,
                       Log(logs, "failedToRead_0063", relative(fullBase, files[i])))
  /\ UNCHANGED <<url, fresh, from, cert, sources, ca, tasks, files, probe,
                 apiKey, interactive, exists, disk>>

\* the rejection is caught inside the loop and counted as a failed upload
loopCallThrowCaught ==
  /\ pc \in {"readBinary", "postFile"}
  /\ posts' = posts
  /\ iterate(NextIndex(i, FALSE), files, successfulUploads,
             [attempt EXCEPT ![i] = "threw"], calls,
             Log(logs, "failedToUpload_0062", relative(fullBase, files[i])))
  /\ UNCHANGED <<url, fresh, from, cert, sources, ca, tasks, files, probe,
                 apiKey, interactive, exists, disk>>

\* an awaited call of the loop rejects: the error leaves publishPilet
loopCallThrow ==
  /\ pc \in {"readBinary", "postFile"}
  /\ pc' = "rejected"
  /\ error' = "Error:" \o pc
  /\ attempt' = [attempt EXCEPT ![i] = "threw"]
  /\ UNCHANGED <<url, fresh, from, cert, sources, ca, tasks, files, i, content,
                 successfulUploads, logs, calls, probe, apiKey, interactive, exists, posts, disk>>

\* the artifact is removed once its upload has returned
releaseRemove(d, file) == d \ {file}

\* lines 253-276: what the loop body does to the artifact's file once postFile
\* has returned: it calls no file-system operation, the file stays
release(d, file) == d

\* lines 254-276: postFile resolves with a result
postFileReturn ==
  /\ pc = "postFile"
  /\ \E result \in Results :
       LET cls == Classify(result)
           ok == cls = "success"
           at == [attempt EXCEPT ![i] = "posted"]
           su == IF ok THEN push(successfulUploads, files[i]) ELSE successfulUploads
           lg == IF ok
                 THEN Progress(IF Truthy(result.response)
                               THEN Log(logs, "httpPostResponse_0067", NoFile)
                               ELSE logs,
                               "Published successfully!")
                 ELSE IF cls = "failedToUpload_0062"
                 THEN Log(logs, cls, relative(fullBase, files[i]))
                 ELSE Log(logs, cls, NoFile)
       IN iterate(NextIndex(i, ok), files, su, at, calls, lg)
  /\ disk' = release(disk, files[i])
  /\ UNCHANGED <<url, fresh, from, cert, sources, ca, tasks, files, probe,
                 apiKey, interactive, exists, posts>>

----------------------------------------------------------------------------
\* Artifact resolution (getFiles, lines 122-195) and the start of publishPilet.

Fulfilled(ts) == \A k \in 1..Len(ts) : ts[k].st = "fulfilled"

\* lines 236-243: getFiles has resolved with fs
afterGetFiles(fs, cs, lg) ==
  /\ files' = fs
  /\ IF NoArtifacts(fs)
     THEN /\ fail("missingPiletTarball_0061", lg)
          /\ i' = i
          /\ content' = content
          /\ successfulUploads' = <<>>
          /\ attempt' = attempt
          /\ calls' = cs
     ELSE iterate(1, fs, <<>>, [k \in 1..Len(fs) |-> "none"], cs,
                  Log(lg, "generalInfo_0000", NoFile))

\* `from` is not looked at: every source is taken for a glob
FirstOpLocal(mode) == "matchFiles"

\* What getFiles issues first for each source when `fresh` is not set:
\* sources.map((s) => matchFiles(baseDir, s)) and its siblings (lines 175-192).
FirstOp(mode) ==
  CASE mode = "local" -> "matchFiles"
    [] mode = "remote" -> "downloadFile"
    [] mode = "npm" -> "findNpmTarball"

\* the downloads are issued without the certificate
issueUntrusted(op, args, trust) ==
  [k \in 1..Len(args) |-> Task(op, args[k], U)]

issue(op, args, trust) ==
  [k \in 1..Len(args) |-> Task(op, args[k], IF op = "downloadFile" THEN trust ELSE U)]

\* lines 233-235 and getFiles up to its first await
callGetFiles(srcs, trust, cs, lg) ==
  IF fresh
  THEN /\ pc' = "matchAnyPilet"
       /\ tasks' = <<>>
       /\ calls' = Bump(cs, "matchAnyPilet", 1)
       /\ logs' = lg
       /\ UNCHANGED <<files, i, content, successfulUploads, attempt, error>>
  ELSE /\ tasks' = issue(FirstOp(from), srcs, trust)
       /\ IF Len(srcs) = 0   \* Promise.all([]) resolves with []
          THEN afterGetFiles(<<>>, cs, lg)
          ELSE /\ pc' = "Promise.all"
               /\ calls' = Bump(cs, FirstOp(from), Len(srcs))
               /\ logs' = lg
               /\ UNCHANGED <<files, i, content, successfulUploads, attempt, error>>

\* publishPilet(baseDir, options), lines 197-226, up to `await checkExists(cert)`
publishPilet ==
  /\ pc = "start"
  /\ \E optUrl \in {U, "", "feed"}, cfgUrl \in {U, "feed"},
        optCert \in {U, "ca.pem"}, cfgCert \in {U, "ca.pem"},
        optFresh \in BOOLEAN, optFrom \in {U, "local", "remote", "npm"},
        optSource \in SourceOptions,
        optApiKey \in {U, "key"}, cfgApiKeys \in {U, "key"}, cfgApiKey \in {U, "key"},
        optInteractive \in {U, "true", "false"} :
       /\ fresh' = optFresh
       /\ apiKey' = Default(optApiKey,
                            Coalesce(Coalesce(cfgApiKeys, cfgApiKey), publishPiletDefaults.apiKey))
       /\ interactive' = (Default(optInteractive, publishPiletDefaults.interactive) = "true")
       /\ sources' = SourcesOf(optSource, optFresh)
       /\ url' = Default(optUrl, Coalesce(cfgUrl, publishPiletDefaults.url))
       /\ from' = Default(optFrom, publishPiletDefaults.from)
       /\ cert' = Default(optCert, Coalesce(cfgCert, publishPiletDefaults.cert))
  /\ IF UrlMissing(url')
     THEN /\ fail("missingPiletFeedUrl_0060", Progress(logs, "Reading configuration ..."))
          /\ calls' = calls
     ELSE /\ pc' = "checkExists"
          /\ calls' = Bump(calls, "checkExists", 1)
          /\ logs' = Progress(logs, "Reading configuration ...")
          /\ error' = error
  /\ UNCHANGED <<ca, tasks, files, i, content, successfulUploads, attempt, probe,
                 exists, posts, disk>>

\* checkExists(path): whether the file is there; no path, no file
MayExist(path) == IF path = U THEN {FALSE} ELSE BOOLEAN

\* a certificate path that names no file is refused
checkExistsReturnFatal ==
  /\ pc = "checkExists"
  /\ \E found \in MayExist(cert) :
       /\ exists' = <<found>>
       /\ IF found
          THEN /\ pc' = "readCert"
               /\ calls' = Bump(calls, "readBinary:cert", 1)
               /\ UNCHANGED <<tasks, files, i, content, successfulUploads, attempt, logs, error>>
          ELSE IF cert # U
          THEN /\ fail("certificateMissing", logs)
               /\ UNCHANGED <<tasks, files, i, content, successfulUploads, attempt, calls>>
          ELSE callGetFiles(sources, ca, calls, logs)
  /\ UNCHANGED <<url, fresh, from, cert, sources, ca, probe, apiKey, interactive,
                 posts, disk>>

\* line 226: checkExists(cert) resolves
checkExistsReturn ==
  /\ pc = "checkExists"
  /\ \E found \in MayExist(cert) :
       /\ exists' = <<found>>
       /\ IF found
             THEN /\ pc' = "readCert"
               /\ calls' = Bump(calls, "readBinary:cert", 1)
               /\ UNCHANGED <<tasks, files, i, content, successfulUploads, attempt, logs, error>>
          ELSE callGetFiles(sources, ca, calls, logs)
  /\ UNCHANGED <<url, fresh, from, cert, sources, ca, probe, apiKey, interactive,
                 posts, disk>>

\* what the read resolves with is not assigned to ca
readCertReturnDropped ==
  /\ pc = "readCert"
  /\ ca' = ca
  /\ callGetFiles(sources, ca', calls, logs)
  /\ UNCHANGED <<url, fresh, from, cert, sources, probe, apiKey, interactive, exists, posts, disk>>

\* line 230: ca = await readBinary(dir, file)
readCertReturn ==
  /\ pc = "readCert"
  /\ ca' = "bytes"
  /\ callGetFiles(sources, ca', calls, logs)
  /\ UNCHANGED <<url, fresh, from, cert, sources, probe, apiKey, interactive, exists, posts, disk>>

\* an awaited call before the loop rejects: the error leaves publishPilet
callThrow ==
  /\ pc \in {"readCert", "matchAnyPilet"}
  /\ pc' = "rejected"
  /\ error' = "Error:" \o pc
  /\ UNCHANGED <<url, fresh, from, cert, sources, ca, tasks, files, i, content,
                 successfulUploads, attempt, logs, calls, probe, apiKey, interactive, exists, posts, disk>>

\* The i-th result list of a source: n files named after it.
Listing(dir, src, n) == [j \in 1..n |-> File(dir, src, j)]

Settle(ts, k, st, res) == [ts EXCEPT ![k].st = st, ![k].res = res]

Results_(ts) == [k \in 1..Len(ts) |-> ts[k].res]

\* getFiles resolves as soon as one task has fulfilled, with what there is
resolveAllEarly(ts) ==
  IF pc = "Promise.all"
  THEN afterGetFiles(flatten(Results_(ts)), calls, logs)
  ELSE UNCHANGED <<pc, files, i, content, successfulUploads, attempt, logs, error, calls>>

\* the promise of Promise.all never resolves
resolveAllNever(ts) ==
  UNCHANGED <<pc, files, i, content, successfulUploads, attempt, logs, error, calls>>

\* When the last task fulfils, Promise.all resolves with the results in the
\* order the tasks were issued in, and getFiles returns them flattened.
resolveAll(ts) ==
  IF pc = "Promise.all" /\ Fulfilled(ts)
  THEN afterGetFiles(flatten(Results_(ts)), calls, logs)
  ELSE UNCHANGED <<pc, files, i, content, successfulUploads, attempt, logs, error, calls>>

\* The files an operation resolves with are on disk: a glob names files that
\* are there, a download and a pack write theirs.
store(d, fs) == d \cup {fs[j] : j \in 1..Len(fs)}

\* the sources are worked off one by one: `for (const s of sources) await ..`
listReturnInTurn(k, op, dir) ==
  /\ tasks[k].op = op
  /\ tasks[k].st = "pending"
  /\ \A j \in 1..(k - 1) : tasks[j].st # "pending"
  /\ \E n \in 0..(MaxFiles - Produced(tasks)) :
       /\ tasks' = Settle(tasks, k, "fulfilled", Listing(dir, tasks[k].arg, n))
       /\ disk' = store(disk, Listing(dir, tasks[k].arg, n))
       /\ resolveAll(tasks')
  /\ UNCHANGED <<url, fresh, from, cert, sources, ca, probe, apiKey, interactive,
                 exists, posts>>

\* matchFiles(baseDir, s) or downloadFile(s, ca) resolves with a list of files
listReturn(k, op, dir) ==
  /\ tasks[k].op = op
  /\ tasks[k].st = "pending"
  /\ \E n \in 0..(MaxFiles - Produced(tasks)) :
       /\ tasks' = Settle(tasks, k, "fulfilled", Listing(dir, tasks[k].arg, n))
       /\ disk' = store(disk, Listing(dir, tasks[k].arg, n))
       /\ resolveAll(tasks')
  /\ UNCHANGED <<url, fresh, from, cert, sources, ca, probe, apiKey, interactive,
                 exists, posts>>

matchFilesReturn == \E k \in 1..Len(tasks) : listReturn(k, "matchFiles", fullBase)
downloadFileReturn == \E k \in 1..Len(tasks) : listReturn(k, "downloadFile", "tmp")

\* each lookup is chained to its own download: .then((url) => downloadFile(url, ca))
findNpmTarballReturnChained ==
  \E k \in 1..Len(tasks) :
    /\ tasks[k].op = "findNpmTarball"
    /\ tasks[k].st = "pending"
    /\ tasks' = [tasks EXCEPT ![k] = Task("downloadFile", "url:" \o tasks[k].arg, ca)]
    /\ calls' = Bump(calls, "downloadFile", 1)
    /\ UNCHANGED <<pc, url, fresh, from, cert, sources, ca, files, i, content,
                   successfulUploads, attempt, logs, error, probe, apiKey, interactive,
                   exists, posts, disk>>

\* findNpmTarball(s) resolves with the tarball's URL; after the last one the
\* downloads are issued (lines 188-190)
findNpmTarballReturn ==
  \E k \in 1..Len(tasks) :
    /\ tasks[k].op = "findNpmTarball"
    /\ tasks[k].st = "pending"
    /\ LET ts == Settle(tasks, k, "fulfilled", <<File("registry", tasks[k].arg, 0)>>)
           allUrls == [j \in 1..Len(ts) |-> "url:" \o ts[j].arg]
       IN IF pc = "Promise.all" /\ Fulfilled(ts)
          THEN /\ tasks' = issue("downloadFile", allUrls, ca)
               /\ calls' = Bump(calls, "downloadFile", Len(allUrls))
          ELSE /\ tasks' = ts
               /\ calls' = calls
    /\ UNCHANGED <<pc, url, fresh, from, cert, sources, ca, files, i, content,
                   successfulUploads, attempt, logs, error, probe, apiKey, interactive, exists, posts, disk>>

\* line 136: matchAnyPilet resolves with the entry modules; lines 138-146
matchAnyPiletReturn ==
  /\ pc = "matchAnyPilet"
  /\ \E n \in 0..(IF Len(sources) = 0 THEN 0 ELSE MaxFiles) :
       LET allEntries == [k \in 1..n |-> "entry" \o ToString(k)]
       IN IF NoEntries(allEntries)
          THEN /\ fail("entryFileMissing_0077", logs)
               /\ UNCHANGED <<tasks, calls, files, i, content, successfulUploads, attempt>>
          ELSE /\ tasks' = issue("triggerBuildPilet", allEntries, U)
               /\ IF n = 0   \* Promise.all([]) resolves with []
                  THEN afterGetFiles(<<>>, calls, logs)
                  ELSE /\ pc' = "Promise.all"
                       /\ calls' = Bump(calls, "triggerBuildPilet", n)
                       /\ logs' = Reduce([k \in 1..n |-> <<Entry("progress", "Triggering pilet build ...", NoFile)>>], logs)
                       /\ UNCHANGED <<files, i, content, successfulUploads, attempt, error>>
  /\ UNCHANGED <<url, fresh, from, cert, sources, ca, probe, apiKey, interactive, exists, posts, disk>>

\* the pack is given the base directory, not the root the build resolved with
triggerBuildPiletReturnBase ==
  \E k \in 1..Len(tasks) :
    /\ tasks[k].op = "triggerBuildPilet"
    /\ tasks[k].st = "pending"
    /\ tasks' = [tasks EXCEPT ![k].op = "createPiletPackage", ![k].arg = fullBase]
    /\ calls' = Bump(calls, "createPiletPackage", 1)
    /\ logs' = Progress(logs, "Triggering pilet pack ...")
    /\ UNCHANGED <<pc, url, fresh, from, cert, sources, ca, files, i, content,
                   successfulUploads, attempt, error, probe, apiKey, interactive,
                   exists, posts, disk>>

\* lines 146-166: an entry's build resolves with its root; its pack is issued
triggerBuildPiletReturn ==
  \E k \in 1..Len(tasks) :
    /\ tasks[k].op = "triggerBuildPilet"
    /\ tasks[k].st = "pending"
    /\ tasks' = [tasks EXCEPT ![k].op = "createPiletPackage",
                              ![k].arg = "root:" \o tasks[k].arg]
    /\ calls' = Bump(calls, "createPiletPackage", 1)
    /\ logs' = Progress(logs, "Triggering pilet pack ...")
    /\ UNCHANGED <<pc, url, fresh, from, cert, sources, ca, files, i, content,
                   successfulUploads, attempt, error, probe, apiKey, interactive, exists, posts, disk>>

\* lines 166-169: an entry's pack resolves with the file
createPiletPackageReturn ==
  \E k \in 1..Len(tasks) :
    /\ tasks[k].op = "createPiletPackage"
    /\ tasks[k].st = "pending"
    /\ tasks' = Settle(tasks, k, "fulfilled", <<File(tasks[k].arg, "pilet.tgz", 1)>>)
    /\ disk' = store(disk, <<File(tasks[k].arg, "pilet.tgz", 1)>>)
    /\ resolveAll(tasks')
    /\ UNCHANGED <<url, fresh, from, cert, sources, ca, probe, apiKey, interactive,
                   exists, posts>>

\* a rejection is not passed on (Promise.allSettled in place of Promise.all)
taskThrowSettled ==
  \E k \in 1..Len(tasks) :
    /\ tasks[k].st = "pending"
    /\ tasks' = Settle(tasks, k, "rejected", <<>>)
    /\ UNCHANGED <<pc, error, url, fresh, from, cert, sources, ca, files, i, content,
                   successfulUploads, attempt, logs, calls, probe, apiKey, interactive,
                   exists, posts, disk>>

\* a rejection cancels the sibling tasks that are still pending
taskThrowCancel ==
  \E k \in 1..Len(tasks) :
    /\ tasks[k].st = "pending"
    /\ tasks' = [j \in 1..Len(tasks) |->
                   IF tasks[j].st = "pending" THEN [tasks[j] EXCEPT !.st = "rejected"]
                   ELSE tasks[j]]
    /\ IF pc = "Promise.all"
       THEN pc' = "rejected" /\ error' = "Error:" \o tasks[k].op
       ELSE UNCHANGED <<pc, error>>
    /\ UNCHANGED <<url, fresh, from, cert, sources, ca, files, i, content,
                   successfulUploads, attempt, logs, calls, probe, apiKey, interactive,
                   exists, posts, disk>>

\* A task rejects.  Promise.all rejects with the first rejection, and so do
\* getFiles and publishPilet; the sibling tasks are not cancelled.
taskThrow ==
  \E k \in 1..Len(tasks) :
    /\ tasks[k].st = "pending"
    /\ tasks' = Settle(tasks, k, "rejected", <<>>)
    /\ IF pc = "Promise.all"
       THEN pc' = "rejected" /\ error' = "Error:" \o tasks[k].op
       ELSE UNCHANGED <<pc, error>>
    /\ UNCHANGED <<url, fresh, from, cert, sources, ca, files, i, content,
                   successfulUploads, attempt, logs, calls, probe, apiKey, interactive, exists, posts, disk>>

----------------------------------------------------------------------------

Init ==
  /\ pc = "start"
  /\ url = U /\ fresh = FALSE /\ from = U /\ cert = U /\ sources = <<>>
  /\ ca = U
  /\ tasks = <<>>
  /\ files = <<>>
  /\ i = 0
  /\ content = U
  /\ successfulUploads = <<>>
  /\ attempt = <<>>
  /\ logs = <<>>
  /\ error = U
  /\ calls = [op \in Ops |-> 0]
  /\ probe = <<>>
  /\ apiKey = U /\ interactive = FALSE
  /\ exists = <<>>
  /\ posts = <<>>
  /\ disk = {}

Next ==
  \/ publishPilet
  \/ checkExistsReturn
  \/ readCertReturn
  \/ callThrow
  \/ matchFilesReturn
  \/ downloadFileReturn
  \/ findNpmTarballReturn
  \/ matchAnyPiletReturn
  \/ triggerBuildPiletReturn
  \/ createPiletPackageReturn
  \/ taskThrow
  \/ readBinaryReturn
  \/ postFileReturn
  \/ loopCallThrow

Spec == Init /\ [][Next]_vars

\* The runs in which every external operation returns: no call rejects, and a
\* call that is pending does return.
NextReturns ==
  \/ publishPilet
  \/ checkExistsReturn
  \/ readCertReturn
  \/ matchFilesReturn
  \/ downloadFileReturn
  \/ findNpmTarballReturn
  \/ matchAnyPiletReturn
  \/ triggerBuildPiletReturn
  \/ createPiletPackageReturn
  \/ readBinaryReturn
  \/ postFileReturn

SpecReturns == Init /\ [][NextReturns]_vars /\ WF_vars(NextReturns)

\* The classification of lines 254-270 applied to two results of postFile.
classifyPair ==
  /\ probe = <<>>
  /\ \E r1 \in Results, r2 \in Results :
       probe' = <<[r1 |-> r1, c1 |-> Classify(r1), r2 |-> r2, c2 |-> Classify(r2)]>>
  /\ UNCHANGED <<pc, url, fresh, from, cert, sources, ca, tasks, files, i, content,
                 successfulUploads, attempt, logs, error, calls,
                 apiKey, interactive, exists, posts, disk>>

SpecClassify == Init /\ [][classifyPair]_vars

----------------------------------------------------------------------------
\* The feed hook useFeed, as its tests use it (src/unnamed/part_000): the hook
\* reads the feed's state, registers an effect and returns a triple; the test
\* then runs the effect.

\* the state of a feed in the global state: s.feeds[options.id]
Feeds == [loaded : BOOLEAN, loading : BOOLEAN, error : {U, "e1", "e2"},
          data : {U, "[]", "[1,2,3]", "d1", "d2"}]

\* the effect loads whenever the feed is not loaded, also while it is loading
useFeedEffectNotLoaded(feed) == IF ~feed.loaded THEN 1 ELSE 0

\* the effect of useFeed: how often it calls the load action
useFeedEffect(feed) == IF ~feed.loaded /\ ~feed.loading THEN 1 ELSE 0

\* what useFeed returns: [loaded, data, error]
useFeedReturn(feed) == <<feed.loaded, feed.data, feed.error>>

\* useFeed(options) is called in a render
useFeed ==
  /\ probe = <<>>
  /\ \E feed \in Feeds :
       probe' = <<[feed |-> feed, ret |-> useFeedReturn(feed), effect |-> "registered",
                   loads |-> 0]>>
  /\ UNCHANGED <<pc, url, fresh, from, cert, sources, ca, tasks, files, i, content,
                 successfulUploads, attempt, logs, error, calls,
                 apiKey, interactive, exists, posts, disk>>

\* the registered effect is run: usedEffect.mock.calls[0][0]()
runEffect ==
  /\ probe # <<>>
  /\ probe[1].effect = "registered"
  /\ probe' = <<[probe[1] EXCEPT !.effect = "run", !.loads = @ + useFeedEffect(probe[1].feed)]>>
  /\ UNCHANGED <<pc, url, fresh, from, cert, sources, ca, tasks, files, i, content,
                 successfulUploads, attempt, logs, error, calls,
                 apiKey, interactive, exists, posts, disk>>

SpecFeed == Init /\ [][useFeed \/ runEffect]_vars

----------------------------------------------------------------------------
\* Lazy components (src/unnamed/part_001): createConverter(context) gives
\* convert(load), which turns a lazy loader into a component that shows a
\* loading indicator until the loader's promise fulfils.
\*
\* In the runs of createConverter, probe holds one record:
\*   current   load.current: 0 for undefined, else the index of its promise
\*   promises  the state of the promise of every load() made, in order
\*   comps     the components returned by convert, in order
\*   portals   the portals that renderInDom has shown, in order; the id of a
\*             portal is its index, and undefined is 0
\*   made      how many calls of mount, update and unmount have been made
\* and a component is a record:
\*   promise   the promise convert subscribed to (line 16, line 30)
\*   present, portalId   the closure variables of lines 14-15
\*   swapped   component.mount, .unmount, .update are those of the loaded
\*             component (lines 32-34)
\*   queued    the callback of line 30 is queued and has not run yet
\*   found     what convert found in load.current
\*   real      the calls the loaded component has received
\* with, for the sake of the properties, what has happened to it:
\*   last      the last call made on it before its callback ran
\*   mounted   before its callback ran, mount has been called on it and
\*             unmount has not been called since
\*   resolved  the callback of line 30 has run
\*   atResolve the arguments of the mount made by the callback (line 35)
\*   direct    the calls made on it after its callback ran

publishPiletVars ==
  <<pc, url, fresh, from, cert, sources, ca, tasks, files, i, content,
    successfulUploads, attempt, logs, error, calls,
    apiKey, interactive, exists, posts, disk>>

Lazy == probe[1]

\* the arguments of mount and update: [element, props]
Args == {<<"e1", "p1">>, <<"e2", "p2">>}

Call(fn, args) == [fn |-> fn, args |-> args]
NoCall == Call("none", <<>>)

\* load.current is taken anew when the earlier load has been rejected
loadCurrentUnlessRejected(L) ==
  IF L.current # 0 /\ L.promises[L.current] # "rejected" THEN L.current ELSE 0

\* `load.current ||`: the promise in load.current, if there is one
loadCurrent(L) == L.current

\* renderInDom(context, element, PiralLoadingIndicator, {}): shows a portal in
\* the element and returns its id
renderInDom(L, c, element) ==
  [L EXCEPT !.portals = Append(@, [owner |-> c, element |-> element, destroyed |-> FALSE])]

\* context.destroyPortal(id)
destroyPortal(L, id) == [L EXCEPT !.portals[id].destroyed = TRUE]

\* lines 18-21
mountLoading(L, c, args) ==
  LET R == renderInDom(L, c, args[1])
  IN  [R EXCEPT !.comps[c].portalId = Len(R.portals), !.comps[c].present = <<args>>]

\* lines 22-24
updateLoading(L, c, args) == [L EXCEPT !.comps[c].present = <<args>>]

\* lines 25-28
unmountLoading(L, c) == [L EXCEPT !.comps[c].portalId = 0, !.comps[c].present = <<>>]

\* a call of the loaded component
callReal(L, c, fn, args) == [L EXCEPT !.comps[c].real = Append(@, Call(fn, args))]

\* lines 32-34
swap(L, c) == [L EXCEPT !.comps[c].swapped = TRUE]

\* the callback of promise.then, lines 30-36, for component c
callback(L, c) ==
  LET comp == L.comps[c]
      L1 == IF comp.portalId # 0 THEN destroyPortal(L, comp.portalId) ELSE L
      L2 == swap(L1, c)
      L3 == IF comp.present # <<>> THEN callReal(L2, c, "mount", comp.present[1]) ELSE L2
  IN  [L3 EXCEPT !.comps[c].queued = FALSE,
                 !.comps[c].resolved = TRUE,
                 !.comps[c].atResolve = comp.present]

\* the callbacks of the components cs, one after the other
RECURSIVE callbacks(_, _)
callbacks(L, cs) ==
  IF cs = <<>> THEN L ELSE callbacks(callback(L, Head(cs)), Tail(cs))

\* the components subscribed to promise p, in the order of their subscription
RECURSIVE Subscribed(_, _, _)
Subscribed(L, p, c) ==
  IF c > Len(L.comps) THEN <<>>
  ELSE (IF L.comps[c].promise = p THEN <<c>> ELSE <<>>) \o Subscribed(L, p, c + 1)

\* what is noted of a call on component c
Noted(L, c, fn, args) ==
  IF L.comps[c].resolved
  THEN [L EXCEPT !.made = @ + 1,
                 !.comps[c].direct = Append(@, Call(fn, args))]
  ELSE [L EXCEPT !.made = @ + 1,
                 !.comps[c].last = Call(fn, args),
                 !.comps[c].mounted = IF fn = "update" THEN @ ELSE fn = "mount"]

CanCall(L, c) ==
  /\ c \in 1..Len(L.comps)
  /\ L.made < MaxCalls

createConverter ==
  /\ probe = <<>>
  /\ probe' = <<[current |-> 0, promises |-> <<>>, comps |-> <<>>, portals |-> <<>>,
                 made |-> 0]>>
  /\ UNCHANGED publishPiletVars

\* convert(load), lines 13-39
convert ==
  /\ probe # <<>>
  /\ Len(Lazy.comps) < MaxConverts
  /\ LET L1 == IF loadCurrent(Lazy) # 0 THEN Lazy
               ELSE [Lazy EXCEPT !.promises = Append(@, "pending"),
                                 !.current = Len(Lazy.promises) + 1]
         promise == IF loadCurrent(Lazy) # 0 THEN loadCurrent(Lazy) ELSE L1.current
         found == IF loadCurrent(Lazy) # 0 THEN Lazy.promises[loadCurrent(Lazy)]
                  ELSE "undefined"
         component == [promise |-> promise, found |-> found, present |-> <<>>, portalId |-> 0,
                       swapped |-> FALSE, queued |-> L1.promises[promise] = "fulfilled",
                       real |-> <<>>, last |-> NoCall, mounted |-> FALSE,
                       resolved |-> FALSE, atResolve |-> <<>>, direct |-> <<>>]
     IN  probe' = <<[L1 EXCEPT !.comps = Append(@, component)]>>
  /\ UNCHANGED publishPiletVars

\* component.mount(...args)
mount ==
  /\ probe # <<>>
  /\ \E c \in 1..Len(Lazy.comps), args \in Args :
       /\ CanCall(Lazy, c)
       /\ LET L1 == Noted(Lazy, c, "mount", args)
          IN  probe' = <<IF Lazy.comps[c].swapped THEN callReal(L1, c, "mount", args)
                         ELSE mountLoading(L1, c, args)>>
  /\ UNCHANGED publishPiletVars

\* component.update(...args)
update ==
  /\ probe # <<>>
  /\ \E c \in 1..Len(Lazy.comps), args \in Args :
       /\ CanCall(Lazy, c)
       /\ LET L1 == Noted(Lazy, c, "update", args)
          IN  probe' = <<IF Lazy.comps[c].swapped THEN callReal(L1, c, "update", args)
                         ELSE updateLoading(L1, c, args)>>
  /\ UNCHANGED publishPiletVars

\* component.unmount()
unmount ==
  /\ probe # <<>>
  /\ \E c \in 1..Len(Lazy.comps) :
       /\ CanCall(Lazy, c)
       /\ LET L1 == Noted(Lazy, c, "unmount", <<>>)
          IN  probe' = <<IF Lazy.comps[c].swapped THEN callReal(L1, c, "unmount", <<>>)
                         ELSE unmountLoading(L1, c)>>
  /\ UNCHANGED publishPiletVars

\* load() and convertComponent have given the component: the promise fulfils
\* and the callbacks subscribed to it run, in the order of their subscription
loadFulfilled ==
  /\ probe # <<>>
  /\ \E p \in 1..Len(Lazy.promises) :
       /\ Lazy.promises[p] = "pending"
       /\ probe' = <<callbacks([Lazy EXCEPT !.promises[p] = "fulfilled"], Subscribed(Lazy, p, 1))>>
  /\ UNCHANGED publishPiletVars

\* load() or convertComponent has thrown: the promise is rejected, and the
\* callback of line 30, which handles no rejection, does not run
loadRejected ==
  /\ probe # <<>>
  /\ \E p \in 1..Len(Lazy.promises) :
       /\ Lazy.promises[p] = "pending"
       /\ probe' = <<[Lazy EXCEPT !.promises[p] = "rejected"]>>
  /\ UNCHANGED publishPiletVars

\* the callback of a component converted after the promise has fulfilled runs
thenCallback ==
  /\ probe # <<>>
  /\ \E c \in 1..Len(Lazy.comps) :
       /\ Lazy.comps[c].queued
       /\ probe' = <<callback(Lazy, c)>>
  /\ UNCHANGED publishPiletVars

NextLazy ==
  \/ createConverter
  \/ convert
  \/ mount
  \/ update
  \/ unmount
  \/ loadFulfilled
  \/ loadRejected
  \/ thenCallback

SpecLazy == Init /\ [][NextLazy]_vars

----------------------------------------------------------------------------
\* Angular modules (src/src/converters/piral-ng/src/startup.ts): startup
\* bootstraps a module unless runningModules holds it already.
\*
\* In the runs of startup, probe holds one record:
\*   runningModules  the array of line 12: [ref, instance, Props], where Props
\*                   is the useValue of the entry's Props provider
\*   bootstrapping   the bootstraps in flight (line 49): the module and the
\*                   Props of the providers made for it
\*   instances       how many module instances the platform has made; an
\*                   instance is its number
\* with, for the sake of the properties:
\*   bootstrapped    how often bootstrapModule has been called for each module
\*   started         how many calls of startup have been made
\*   returned        what the promise of the last settled call resolved with:
\*                   the module, the instance (0 for undefined), the props
\*                   of the call, and how

Ng == probe[1]

BootstrapModules == {"ModuleA", "ModuleB"}
PropsOf == {"props1", "props2"}

\* runningModules.find(([ref]) => ref === BootstrapModule): the index of the
\* first entry of the module, 0 if there is none
RECURSIVE find(_, _, _)
find(rm, BootstrapModule, k) ==
  IF k > Len(rm) THEN 0
  ELSE IF rm[k].ref = BootstrapModule THEN k
  ELSE find(rm, BootstrapModule, k + 1)

\* the sequence without its k-th element
Without(seq, k) == SubSeq(seq, 1, k - 1) \o SubSeq(seq, k + 1, Len(seq))

\* `const runningModules = []`, line 12
importStartup ==
  /\ probe = <<>>
  /\ probe' = <<[runningModules |-> <<>>, bootstrapping |-> <<>>, instances |-> 0,
                 bootstrapped |-> [m \in BootstrapModules |-> 0],
                 started |-> 0, returned |-> <<>>]>>
  /\ UNCHANGED publishPiletVars

\* startup(BootstrapModule, context, props, ngOptions), lines 22-49
startup ==
  /\ probe # <<>>
  /\ Ng.started < MaxStartups
  /\ \E BootstrapModule \in BootstrapModules, props \in PropsOf :
       LET k == find(Ng.runningModules, BootstrapModule, 1)
       IN  IF k # 0
           THEN probe' = <<[Ng EXCEPT
                  !.started = @ + 1,
                  !.runningModules[k].Props = props,
                  !.returned = <<[ref |-> BootstrapModule,
                                  instance |-> Ng.runningModules[k].instance,
                                  props |-> props, how |-> "running"]>>]>>
           ELSE probe' = <<[Ng EXCEPT
                  !.started = @ + 1,
                  !.bootstrapping = Append(@, [ref |-> BootstrapModule, Props |-> props]),
                  !.bootstrapped[BootstrapModule] = @ + 1]>>
  /\ UNCHANGED publishPiletVars

\* bootstrapModule has given the instance: lines 51-65
bootstrapModuleReturn ==
  /\ probe # <<>>
  /\ \E b \in 1..Len(Ng.bootstrapping) :
       LET instance == Ng.instances + 1
       IN  probe' = <<[Ng EXCEPT
             !.instances = instance,
             !.bootstrapping = Without(@, b),
             !.runningModules = Append(@, [ref |-> Ng.bootstrapping[b].ref,
                                           instance |-> instance,
                                           Props |-> Ng.bootstrapping[b].Props]),
             !.returned = <<[ref |-> Ng.bootstrapping[b].ref, instance |-> instance,
                             props |-> Ng.bootstrapping[b].Props, how |-> "bootstrapped"]>>]>>
  /\ UNCHANGED publishPiletVars

\* bootstrapModule has rejected: the error is logged (line 50), instance is
\* undefined, nothing is pushed
bootstrapModuleThrow ==
  /\ probe # <<>>
  /\ \E b \in 1..Len(Ng.bootstrapping) :
       probe' = <<[Ng EXCEPT
             !.bootstrapping = Without(@, b),
             !.returned = <<[ref |-> Ng.bootstrapping[b].ref, instance |-> 0,
                             props |-> Ng.bootstrapping[b].Props, how |-> "failed"]>>]>>
  /\ UNCHANGED publishPiletVars

NextStartup ==
  \/ importStartup
  \/ startup
  \/ bootstrapModuleReturn
  \/ bootstrapModuleThrow

SpecStartup == Init /\ [][NextStartup]_vars

----------------------------------------------------------------------------
\* What the claims speak of

N == Len(files)
\* publishPilet has entered the upload loop
InLoop == attempt # <<>>
Ended == pc \in {"resolved", "rejected"}
Attempted(k) == attempt[k] # "none"
\* artifact k got its outcome: its read returned nothing, or its upload returned
Settled(k) == attempt[k] \in {"unreadable", "posted"}
Threw == \E k \in 1..Len(attempt) : attempt[k] = "threw"

FailureCodes == {"failedToUploadPayment_0161", "failedToUploadVersion_0162",
                 "failedToUploadSize_0163", "failedToUpload_0062", "failedToRead_0063"}
Published == "Published successfully!"
IsOutcome(e) ==
  \/ e.fn = "progress" /\ e.code = Published
  \/ e.fn = "log" /\ e.code \in FailureCodes
\* the per-artifact outcomes reported so far, in the order they were reported
Outcomes == SelectSeq(logs, IsOutcome)
Succeeded(k) == Outcomes[k].code = Published
Count(fn, code) == Cardinality({k \in 1..Len(logs) : logs[k].fn = fn /\ logs[k].code = code})
FailedUploading == pc = "rejected" /\ error = "failedUploading_0064"

C2_NoShortCircuit ==
  InLoop =>
    /\ \A k \in 1..(N - 1) : Settled(k) => Attempted(k + 1)
    /\ FailedUploading => (\A k \in 1..N : Settled(k)) /\ Len(Outcomes) = N
    /\ Count("fail", "failedUploading_0064") <= 1
    /\ Count("fail", "failedUploading_0064") = 1 => FailedUploading

\* outcomes [409, success]: both attempted, overall failure
C2_Witness ==
  /\ FailedUploading
  /\ N = 2
  /\ Len(Outcomes) = 2
  /\ Outcomes[1].code = "failedToUploadVersion_0162"
  /\ Succeeded(2)
  /\ calls["postFile"] = 2

\* C3: at most one upload is in flight, and the read of an artifact starts only
\* when the artifact before it has its outcome.
C3_Sequential ==
  InLoop =>
    /\ Cardinality({k \in 1..N : attempt[k] = "posting"}) <= 1
    /\ Cardinality({k \in 1..N : attempt[k] \in {"reading", "posting"}}) <= 1
    /\ \A k \in 2..N : Attempted(k) => Settled(k - 1)
    /\ \A k \in 1..N : attempt[k] \in {"reading", "posting"} => k = i

\* the second artifact is being uploaded, after the first one's upload returned
C3_Witness ==
  /\ InLoop
  /\ N >= 2
  /\ attempt[1] = "posted"
  /\ attempt[2] = "posting"

\* C4: without a feed URL publishPilet fails with 'missingPiletFeedUrl' before
\* any external operation is invoked.
C4_MissingUrl ==
  (pc # "start" /\ ~Truthy(url)) =>
    /\ pc = "rejected"
    /\ error = "missingPiletFeedUrl_0060"
    /\ \A op \in Ops : calls[op] = 0
    /\ tasks = <<>> /\ files = <<>> /\ attempt = <<>> /\ ca = U

C4_Witness ==
  /\ pc = "rejected"
  /\ url = ""
  /\ error = "missingPiletFeedUrl_0060"

\* getFiles has been called: the URL was given and the certificate step is over
GetFilesCalled ==
  /\ pc \notin {"start", "checkExists", "readCert"}
  /\ Truthy(url)
  /\ error # "Error:readCert"

\* getFiles (fresh not set) has resolved: every glob or download has fulfilled
ListsResolved ==
  /\ ~fresh
  /\ GetFilesCalled
  /\ pc # "Promise.all"
  /\ \A k \in 1..Len(tasks) :
       tasks[k].st = "fulfilled" /\ tasks[k].op \in {"matchFiles", "downloadFile"}

\* C5: when resolution yields no artifact the run fails with
\* 'missingPiletTarball' and reads and uploads nothing; no run ends in success
\* without an upload.
C5_NoArtifacts ==
  /\ (ListsResolved /\ \A k \in 1..Len(tasks) : tasks[k].res = <<>>) =>
       /\ pc = "rejected"
       /\ error = "missingPiletTarball_0061"
       /\ calls["postFile"] = 0 /\ calls["readBinary:file"] = 0
       /\ attempt = <<>>
  /\ error = "missingPiletTarball_0061" => (files = <<>> /\ calls["postFile"] = 0)
  /\ pc = "resolved" => (N >= 1 /\ calls["postFile"] >= 1)

\* two downloads that both gave nothing
C5_Witness ==
  /\ error = "missingPiletTarball_0061"
  /\ from = "remote"
  /\ Len(tasks) = 2
  /\ ListsResolved

\* matchAnyPilet has resolved with no entry module
NoEntriesFound ==
  /\ fresh
  /\ GetFilesCalled
  /\ pc # "matchAnyPilet"
  /\ error # "Error:matchAnyPilet"
  /\ tasks = <<>>

\* C6: with fresh set and no entry module matched, getFiles fails with
\* 'entryFileMissing' and no build and no pack has been invoked.
C6_EntryFileMissing ==
  /\ NoEntriesFound =>
       /\ pc = "rejected"
       /\ error = "entryFileMissing_0077"
       /\ calls["triggerBuildPilet"] = 0 /\ calls["createPiletPackage"] = 0
       /\ files = <<>>
  /\ error = "entryFileMissing_0077" => (fresh /\ NoEntriesFound)

C6_Witness ==
  /\ error = "entryFileMissing_0077"
  /\ from = "npm"
  /\ ca = "bytes"
  /\ Len(sources) = 2

\* where the results of task k start in the concatenation
RECURSIVE Offset(_)
Offset(k) == IF k = 1 THEN 0 ELSE Offset(k - 1) + Len(tasks[k - 1].res)
\* what task k was issued for: the k-th source, or the URL looked up for it
ArgOfSource(k) == IF from = "npm" THEN "url:" \o sources[k] ELSE sources[k]

\* C7: with fresh not set the resolved artifacts are the per-source result
\* lists, each in its own order, one after the other in the order of the
\* sources, in whatever order the operations completed.
C7_SourceOrder ==
  ListsResolved =>
    /\ Len(tasks) = Len(sources)
    /\ Len(files) = Offset(Len(tasks) + 1)
    /\ \A k \in 1..Len(tasks) :
         /\ tasks[k].arg = ArgOfSource(k)
         /\ \A j \in 1..Len(tasks[k].res) :
              /\ files[Offset(k) + j] = tasks[k].res[j]
              /\ files[Offset(k) + j].src = ArgOfSource(k)
              /\ files[Offset(k) + j].k = j

\* two sources with one file each, the loop has started
C7_Witness ==
  /\ ListsResolved
  /\ Len(tasks) = 2
  /\ Len(tasks[1].res) = 1
  /\ Len(tasks[2].res) = 1
  /\ files[1].src = sources[1] /\ files[2].src = sources[2]
  /\ InLoop

\* the artifacts that succeeded among the first k, in the order of the list
RECURSIVE SucceededUpTo(_)
SucceededUpTo(k) ==
  IF k = 0 THEN <<>>
  ELSE IF Succeeded(k) THEN Append(SucceededUpTo(k - 1), files[k])
  ELSE SucceededUpTo(k - 1)

\* outcome k is the outcome of artifact k
Belongs(k) ==
  /\ Settled(k)
  /\ (Outcomes[k].code = "failedToRead_0063") <=> (attempt[k] = "unreadable")
  /\ Outcomes[k].code \in {"failedToRead_0063", "failedToUpload_0062"} =>
       Outcomes[k].file = relative(fullBase, files[k])

P == probe[1]
\* The table of the specification, by status alone.
ByStatus(status) ==
  CASE status \in 200..299 -> "success"
    [] status = 402 -> "failedToUploadPayment_0161"
    [] status = 409 -> "failedToUploadVersion_0162"
    [] status = 413 -> "failedToUploadSize_0163"
    [] OTHER -> "failedToUpload_0062"

Publishing(file) == \E k \in 1..Len(logs) : logs[k].code = "Publishing" /\ logs[k].file = file
InSeq(x, seq) == \E k \in 1..Len(seq) : seq[k] = x

\* C10: an artifact whose read gave nothing is not uploaded, is reported with
\* 'failedToRead' and not counted as uploaded, and the loop goes on to the
\* next artifact (after the last one, to the verdict 'failedUploading').
C10_Unreadable ==
  InLoop =>
    /\ pc = "postFile" => content = "bytes"
    /\ calls["postFile"] = Cardinality({k \in 1..N : attempt[k] \in {"posting", "posted"}})
                             + (IF error = "Error:postFile" THEN 1 ELSE 0)
    /\ \A k \in 1..N : attempt[k] = "unreadable" =>
         /\ Outcomes[k].code = "failedToRead_0063"
         /\ Outcomes[k].file = relative(fullBase, files[k])
         /\ ~Publishing(files[k])
         /\ ~InSeq(files[k], successfulUploads)
         /\ k < N => Attempted(k + 1)
         /\ k = N => FailedUploading
         /\ pc # "resolved"

\* the first artifact was unreadable, the second one has been uploaded
C10_Witness ==
  /\ InLoop
  /\ N = 2
  /\ attempt[1] = "unreadable"
  /\ attempt[2] = "posted"
  /\ calls["postFile"] = 1
  /\ Succeeded(2)

----------------------------------------------------------------------------
\* The certificate

\* the certificate path is set and checkExists found no file there
CertMissing == cert # U /\ exists = <<FALSE>>
\* getFiles has issued what it issues first
AcquisitionStarted ==
  IF fresh THEN calls["matchAnyPilet"] = 1
  ELSE calls[FirstOp(from)] >= Len(sources)
NetworkOps == {"findNpmTarball", "downloadFile", "postFile"}

\* C11 as stated: with the certificate path set to a file that does not exist
\* the run does not succeed and no lookup, download or upload is attempted.
C11_AsStated ==
  CertMissing =>
    /\ pc # "resolved"
    /\ \A op \in NetworkOps : calls[op] = 0

\* C11 (amended): with the certificate path set to a file that does not exist
\* the file is not read and no trust material is loaded; this is no error: the
\* run goes on to acquisition, and every download and upload it issues is
\* given undefined trust material.
C11_MissingCertificate ==
  CertMissing =>
    /\ ca = U
    /\ calls["readBinary:cert"] = 0
    /\ AcquisitionStarted
    /\ error \notin {"Error:checkExists", "Error:readCert"}
    /\ \A k \in 1..Len(tasks) : tasks[k].ca = U
    /\ \A k \in 1..Len(posts) : posts[k].ca = U

\* such a run has downloaded and published its artifacts
C11_Witness ==
  /\ CertMissing
  /\ pc = "resolved"
  /\ from = "remote" /\ ~fresh
  /\ calls["downloadFile"] >= 1
  /\ calls["postFile"] = N

\* the certificate step (lines 223-231) is over and has not failed
CertificateLoaded ==
  /\ pc \notin {"start", "checkExists", "readCert"}
  /\ exists # <<>>
  /\ error # "Error:readCert"

\* C12: the certificate step yields undefined, and no error, when the path is
\* unset or names no file, and the file's bytes when the file exists; the file
\* is read only when it exists, and only a failing read of it is an error.
C12_CertificateLoader ==
  /\ cert = U => exists \in {<<>>, <<FALSE>>}
  /\ CertificateLoaded => ca = (IF exists = <<TRUE>> THEN "bytes" ELSE U)
  /\ ~CertificateLoaded => ca = U
  /\ calls["readBinary:cert"] = (IF exists = <<TRUE>> THEN 1 ELSE 0)
  /\ pc = "readCert" => exists = <<TRUE>>
  /\ error = "Error:readCert" => (exists = <<TRUE>> /\ pc = "rejected")
  /\ exists = <<FALSE>> => (AcquisitionStarted /\ error # "Error:checkExists")

\* the file was there, its bytes are loaded and the upload loop has started
C12_Witness ==
  /\ exists = <<TRUE>>
  /\ ca = "bytes"
  /\ InLoop

CertificateStep == pc \in {"start", "checkExists", "readCert"}

\* what holds of the trust material in every state
TrustPassed ==
  /\ calls["checkExists"] <= 1 /\ calls["readBinary:cert"] <= 1
  /\ CertificateStep =>
       /\ \A op \in Ops \ {"checkExists", "readBinary:cert"} : calls[op] = 0
       /\ tasks = <<>> /\ posts = <<>>
  /\ \A k \in 1..Len(tasks) : tasks[k].op = "downloadFile" => tasks[k].ca = ca
  /\ \A k \in 1..Len(posts) : posts[k].ca = ca
  /\ calls["postFile"] = Len(posts)

\* once the certificate step is over, ca is not assigned and the file not read
TrustKept ==
  ~CertificateStep =>
    /\ ca' = ca
    /\ calls'["readBinary:cert"] = calls["readBinary:cert"]
    /\ calls'["checkExists"] = calls["checkExists"]

\* C13: the certificate is checked and read at most once, before any
\* acquisition or upload is issued; afterwards ca never changes and the file is
\* not read again, and every download and every upload is passed that value.
C13_TrustLoadedOnce == []TrustPassed /\ [][TrustKept]_vars

\* an npm run with a certificate: downloads and two uploads were given it
C13_Witness ==
  /\ ca = "bytes"
  /\ from = "npm" /\ ~fresh
  /\ calls["downloadFile"] = 2
  /\ Len(posts) = 2
  /\ \A k \in 1..Len(tasks) : tasks[k].ca = "bytes"

----------------------------------------------------------------------------
\* The API key

\* C14 as stated: without an API key and with interactive not set, the run
\* fails and no lookup, no download and no upload is issued.
C14_AsStated ==
  (pc # "start" /\ apiKey = U /\ ~interactive) =>
    /\ pc # "resolved"
    /\ \A op \in NetworkOps : calls[op] = 0

----------------------------------------------------------------------------
\* Acquisition

OpsOfTasks == {tasks[k].op : k \in 1..Len(tasks)}

\* C15: in npm mode a download is issued only when every lookup has resolved:
\* while a lookup is pending, or after one has failed, there is no download,
\* and the downloads are issued together, one per source, for the URLs found.
C15_LookupsBeforeDownloads ==
  (~fresh /\ from = "npm") =>
    /\ OpsOfTasks \in {{}, {"findNpmTarball"}, {"downloadFile"}}
    /\ "findNpmTarball" \in OpsOfTasks => calls["downloadFile"] = 0
    /\ error = "Error:findNpmTarball" => calls["downloadFile"] = 0
    /\ calls["downloadFile"] \in {0, Len(sources)}
    /\ calls["downloadFile"] > 0 =>
         /\ calls["findNpmTarball"] = Len(sources)
         /\ Len(tasks) = Len(sources)
         /\ \A k \in 1..Len(tasks) : tasks[k].arg = "url:" \o sources[k]

\* two packages were looked up, then both downloads were issued
C15_Witness ==
  /\ ~fresh /\ from = "npm"
  /\ Len(sources) = 2
  /\ calls["findNpmTarball"] = 2
  /\ calls["downloadFile"] = 2
  /\ tasks[1].st = "pending" /\ tasks[2].st = "fulfilled"

\* the build or the pack of entry j, pending, can go on
CanGoOn(j) ==
  ENABLED (/\ triggerBuildPiletReturn \/ createPiletPackageReturn
           /\ tasks'[j] # tasks[j])

\* every entry's build was started, none is held back or cancelled
BuildsIndependent ==
  (fresh /\ tasks # <<>>) =>
    /\ calls["triggerBuildPilet"] = Len(tasks)
    /\ calls["createPiletPackage"] =
         Cardinality({k \in 1..Len(tasks) : tasks[k].op = "createPiletPackage"})
    /\ \A j \in 1..Len(tasks) :
         /\ tasks[j].st \in {"pending", "fulfilled", "rejected"}
         /\ tasks[j].st = "pending" => CanGoOn(j)

\* a step in which an entry's build or pack fails leaves the other entries alone
FailureIsLocal ==
  (fresh /\ tasks # <<>>) =>
    \A k \in 1..Len(tasks) :
      (tasks[k].st = "pending" /\ tasks'[k].st = "rejected") =>
        \A j \in 1..Len(tasks) : j # k => tasks'[j] = tasks[j]

\* C16: with fresh set every entry's build is started; a failing build or
\* pack changes that entry alone: the builds and packs of the other entries
\* are not cancelled and can still be started and completed.
C16_SiblingsIndependent == []BuildsIndependent /\ [][FailureIsLocal]_vars

\* the first entry's build has failed, the second entry was built and packed
C16_Witness ==
  /\ fresh
  /\ Len(tasks) = 2
  /\ error = "Error:triggerBuildPilet"
  /\ tasks[1].st = "rejected" /\ tasks[1].op = "triggerBuildPilet"
  /\ tasks[2].st = "fulfilled" /\ tasks[2].op = "createPiletPackage"
  /\ calls["createPiletPackage"] = 1

----------------------------------------------------------------------------
\* The report, the attempts, the strategy, the files

ToSet(seq) == {seq[k] : k \in 1..Len(seq)}
\* the message at p announces an upload whose success is reported next
CodeAt(p) == IF p <= Len(logs) THEN logs[p].code ELSE ""
ReportedDone(p) ==
  /\ logs[p].code = "Publishing"
  /\ \/ CodeAt(p + 1) = Published
     \/ CodeAt(p + 1) = "httpPostResponse_0067" /\ CodeAt(p + 2) = Published
\* the artifacts the messages report as published
ReportedPublished == {logs[p].file : p \in {q \in 1..Len(logs) : ReportedDone(q)}}
\* the artifacts the messages name without reporting them published
ReportedFailed ==
  {logs[p].file : p \in {q \in 1..Len(logs) : logs[q].code = "Publishing" /\ ~ReportedDone(q)}}
    \cup {f \in ToSet(files) : \E p \in 1..Len(logs) :
             logs[p].code = "failedToRead_0063" /\ logs[p].file = relative(fullBase, f)}
\* C17: a run in which an artifact failed ends in failure, without the success
\* message, and its messages name exactly the artifacts that were uploaded
\* successfully and, apart from them, every artifact that failed.
C17_ReportsSucceeded ==
  InLoop =>
    LET out == Outcomes
        published == ReportedPublished
        failed == ReportedFailed
        done == {j \in 1..Len(out) : out[j].code = Published}
    IN /\ published = ToSet(successfulUploads)
       /\ published = {files[k] : k \in done}
       /\ (Ended /\ done # 1..Len(out)) =>
            /\ pc = "rejected"
            /\ Count("logDone", "Pilet(s) published successfully!") = 0
            /\ {files[k] : k \in (1..Len(out)) \ done} \subseteq failed
            /\ failed \cap published = {}

\* the first artifact was published, the second was refused with 409
C17_Witness ==
  /\ FailedUploading
  /\ N = 2
  /\ Succeeded(1)
  /\ Outcomes[2].code = "failedToUploadVersion_0162"
  /\ ReportedPublished = {files[1]}
  /\ ReportedFailed = {files[2]}

\* C18: the uploads are issued for increasing positions of the artifact list,
\* so no position is uploaded twice, whatever its outcome was, and there are at
\* most N uploads and N reads.
C18_OneAttemptEach ==
  /\ calls["postFile"] = Len(posts)
  /\ Len(posts) <= N
  /\ calls["readBinary:file"] <= N
  /\ \A a \in 1..Len(posts) :
       /\ posts[a].k \in 1..N
       /\ \A b \in 1..Len(posts) : a < b => posts[a].k < posts[b].k
  /\ InLoop => calls["readBinary:file"] = Cardinality({k \in 1..N : Attempted(k)})

\* the first upload failed, the second succeeded, the run is over: two uploads
C18_Witness ==
  /\ FailedUploading
  /\ N = 2
  /\ Len(posts) = 2
  /\ Outcomes[1].code = "failedToUpload_0062"
  /\ Succeeded(2)

AcquisitionOps == {"matchAnyPilet", "triggerBuildPilet", "createPiletPackage",
                   "matchFiles", "findNpmTarball", "downloadFile"}
\* the operations of the strategy the options select
StrategyOps ==
  IF fresh THEN {"matchAnyPilet", "triggerBuildPilet", "createPiletPackage"}
  ELSE CASE from = "local" -> {"matchFiles"}
         [] from = "remote" -> {"downloadFile"}
         [] from = "npm" -> {"findNpmTarball", "downloadFile"}

\* C19: only the operations of one strategy are invoked: with fresh set entry
\* matching, build and pack, whatever `from` is; with fresh not set those of
\* the strategy `from` selects; and once getFiles is called that strategy runs.
C19_OneStrategy ==
  pc # "start" =>
    /\ \A op \in AcquisitionOps \ StrategyOps : calls[op] = 0
    /\ OpsOfTasks \subseteq StrategyOps
    /\ GetFilesCalled => AcquisitionStarted
    /\ (~fresh /\ GetFilesCalled) => calls[FirstOp(from)] = Len(sources)

\* fresh set together with from = 'npm': built, packed and published
C19_Witness ==
  /\ fresh /\ from = "npm"
  /\ pc = "resolved"
  /\ calls["createPiletPackage"] = N

\* C20: every artifact that was resolved is on disk, in every state of the run
\* and whatever way it has ended.
C20_ArtifactsKept ==
  /\ ToSet(files) \subseteq disk
  /\ \A k \in 1..Len(tasks) :
       (tasks[k].st = "fulfilled" /\ tasks[k].op # "findNpmTarball") =>
         ToSet(tasks[k].res) \subseteq disk

\* a run that ended in failure after one of its two uploads succeeded
C20_Witness ==
  /\ FailedUploading
  /\ N = 2
  /\ Len(successfulUploads) = 1
  /\ Cardinality(disk) = 2

----------------------------------------------------------------------------
\* Fresh builds, and resolution before the loop

\* the k-th entry module matched, and the root its build resolves with
EntryOf(k) == "entry" \o ToString(k)
RootOf(k) == "root:" \o EntryOf(k)
\* getFiles has resolved with fresh set
FreshResolved ==
  /\ fresh
  /\ tasks # <<>>
  /\ Fulfilled(tasks)
  /\ pc # "Promise.all"

\* C21: with fresh set, the task of the k-th entry is its build and then, once
\* the build has resolved, its pack, which is given the root of that build and
\* yields one artifact; the artifacts getFiles resolves with are those of
\* the entries, one each and in the order of the entries.
C21_PackAfterBuild ==
  (fresh /\ tasks # <<>>) =>
    /\ \A k \in 1..Len(tasks) :
         /\ tasks[k].op = "triggerBuildPilet" =>
              (tasks[k].arg = EntryOf(k) /\ tasks[k].st # "fulfilled" /\ tasks[k].res = <<>>)
         /\ tasks[k].op = "createPiletPackage" => tasks[k].arg = RootOf(k)
         /\ tasks[k].st = "fulfilled" =>
              (tasks[k].op = "createPiletPackage"
                 /\ tasks[k].res = <<File(RootOf(k), "pilet.tgz", 1)>>)
    /\ calls["createPiletPackage"] <= calls["triggerBuildPilet"]
    /\ calls["createPiletPackage"] =
         Cardinality({k \in 1..Len(tasks) : tasks[k].op = "createPiletPackage"})
    /\ FreshResolved =>
         /\ N = Len(tasks)
         /\ \A k \in 1..N : files[k] = File(RootOf(k), "pilet.tgz", 1)
    /\ ~FreshResolved => files = <<>>

\* two entries, both built and packed, the loop has started
C21_Witness ==
  /\ FreshResolved
  /\ InLoop
  /\ N = 2
  /\ files[1].dir = RootOf(1) /\ files[2].dir = RootOf(2)

\* nothing of the upload loop has happened
LoopNotStarted ==
  /\ attempt = <<>> /\ posts = <<>> /\ successfulUploads = <<>>
  /\ calls["readBinary:file"] = 0 /\ calls["postFile"] = 0
  /\ i = 0

\* before the tasks of getFiles have all fulfilled there is no artifact and no
\* read or upload; in the loop the artifacts are what the tasks resolved with
ResolvedFirst ==
  /\ (pc \in {"start", "checkExists", "readCert", "matchAnyPilet", "Promise.all"}
        \/ ~Fulfilled(tasks)) => (files = <<>> /\ LoopNotStarted)
  /\ InLoop =>
       /\ Fulfilled(tasks)
       /\ N >= 1
       /\ Len(attempt) = N
       /\ files = flatten(Results_(tasks))
       /\ i \in 1..(N + 1)

\* once the loop has started the artifact list does not change
FilesFixed == InLoop => (files' = files /\ tasks' = tasks /\ Len(attempt') = Len(attempt))

\* C22: no artifact is read and no upload is issued before every task of
\* artifact resolution has fulfilled; the artifact list, and so the number of
\* artifacts, is set before the first read and never changes during the loop.
C22_ResolvedBeforeLoop == []ResolvedFirst /\ [][FilesFixed]_vars

\* the second of two artifacts, one of each source, is being read
C22_Witness ==
  /\ InLoop
  /\ ~fresh
  /\ Len(tasks) = 2
  /\ N = 2
  /\ pc = "readBinary" /\ i = 2

\* the operation of task j, pending, can complete
CanComplete(j) ==
  ENABLED (/\ \/ matchFilesReturn
              \/ downloadFileReturn
              \/ findNpmTarballReturn
              \/ triggerBuildPiletReturn
              \/ createPiletPackageReturn
           /\ \/ Len(tasks') # Len(tasks)
              \/ tasks'[j] # tasks[j])

\* C23: the operations of one phase are issued together, one per source (per
\* URL, per entry), before any of them is awaited; each pending one can
\* complete whatever the state of its siblings is, pending ones included.
C23_IssuedTogether ==
  tasks # <<>> =>
    /\ Len(tasks) = (IF fresh THEN calls["triggerBuildPilet"] ELSE Len(sources))
    /\ \A op \in OpsOfTasks \ {"createPiletPackage"} : calls[op] = Len(tasks)
    /\ \A j \in 1..Len(tasks) : tasks[j].st = "pending" => CanComplete(j)

\* the first of two downloads has not completed, the second one has
C23_Witness ==
  /\ pc = "Promise.all"
  /\ from = "remote" /\ ~fresh
  /\ Len(tasks) = 2
  /\ tasks[1].st = "pending"
  /\ tasks[2].st = "fulfilled" /\ Len(tasks[2].res) = 1

----------------------------------------------------------------------------
\* The feed hook

\* C24: the effect of useFeed calls the load action, once, if and only if the
\* feed is neither loaded nor loading, and not before the effect is run;
\* useFeed returns loaded, data and error as they are in the feed's state.
C24_UseFeed ==
  probe # <<>> =>
    /\ P.ret = <<P.feed.loaded, P.feed.data, P.feed.error>>
    /\ P.loads \in {0, 1}
    /\ P.effect = "registered" => P.loads = 0
    /\ P.effect = "run" => ((P.loads = 1) <=> (~P.feed.loaded /\ ~P.feed.loading))

\* the feed of the test 'Does not load if its already loading', effect run
C24_Witness ==
  /\ probe # <<>>
  /\ P.effect = "run"
  /\ ~P.feed.loaded /\ P.feed.loading
  /\ P.feed.data = U /\ P.feed.error = U
  /\ P.loads = 0
  /\ P.ret = <<FALSE, U, U>>

----------------------------------------------------------------------------
\* Rejections

RejectedTasks == {k \in 1..Len(tasks) : tasks[k].st = "rejected"}

\* C25: when an operation of artifact resolution has failed, publishPilet has
\* rejected with the error of such an operation, there is no artifact list and
\* no read and no upload, whatever the sibling operations have produced.
C25_AcquisitionFails ==
  /\ RejectedTasks # {} =>
       /\ pc = "rejected"
       /\ error \in {"Error:" \o tasks[k].op : k \in RejectedTasks}
       /\ files = <<>>
       /\ LoopNotStarted
  /\ error = "Error:matchAnyPilet" => (pc = "rejected" /\ files = <<>> /\ LoopNotStarted)

\* the first download has failed, the second one has produced a file
C25_Witness ==
  /\ from = "remote" /\ ~fresh
  /\ Len(tasks) = 2
  /\ tasks[1].st = "rejected"
  /\ tasks[2].st = "fulfilled" /\ Len(tasks[2].res) = 1
  /\ error = "Error:downloadFile"
  /\ disk # {}

\* C26: when the read or the upload of artifact i has rejected, publishPilet
\* has rejected with that error: no later artifact is attempted, the artifacts
\* before i have their outcomes, and neither the success message nor
\* 'failedUploading' is reported.
C26_ThrowLeavesLoop ==
  /\ Threw =>
       /\ pc = "rejected"
       /\ error \in {"Error:readBinary", "Error:postFile"}
       /\ attempt[i] = "threw"
       /\ \A k \in 1..N : (k < i => Settled(k)) /\ (k > i => attempt[k] = "none")
       /\ Len(Outcomes) = i - 1
       /\ Count("logDone", "Pilet(s) published successfully!") = 0
       /\ Count("fail", "failedUploading_0064") = 0
       /\ calls["readBinary:file"] = i
  /\ error \in {"Error:readBinary", "Error:postFile"} => Threw

\* the upload of the first of two artifacts has rejected
C26_Witness ==
  /\ N = 2
  /\ attempt = <<"threw", "none">>
  /\ error = "Error:postFile"
  /\ Len(posts) = 1

----------------------------------------------------------------------------
\* Termination

FatalCodes == {"missingPiletFeedUrl_0060", "entryFileMissing_0077", "missingPiletTarball_0061"}
\* how the run has ended: the kinds of ending that apply
Endings ==
  {e \in {"fatal", "success", "uploadFailure"} :
     \/ e = "fatal" /\ pc = "rejected" /\ error \in FatalCodes
     \/ e = "success" /\ pc = "resolved" /\ Count("logDone", "Pilet(s) published successfully!") = 1
     \/ e = "uploadFailure" /\ FailedUploading}

\* a run that has ended has ended in one way, and after N iterations if it
\* has resolved N artifacts; it does not go on
EndsInOneWay ==
  Ended =>
    /\ Cardinality(Endings) = 1
    /\ "fatal" \in Endings <=> ~InLoop
    /\ InLoop =>
         /\ calls["readBinary:file"] = N
         /\ \A k \in 1..N : Settled(k)
         /\ i = N + 1
    /\ \A k \in 1..Len(tasks) : tasks[k].st = "fulfilled"
    /\ ~ENABLED NextReturns

\* C27: when every external operation returns, every run of publishPilet
\* ends, and it ends in exactly one of: a fatal precondition or resolution
\* error, success, or 'failedUploading'; with N artifacts resolved it ends
\* after exactly N iterations of the loop.
C27_Terminates == <>Ended /\ []EndsInOneWay

\* a run that has ended in 'failedUploading' after two iterations
C27_Witness ==
  /\ Endings = {"uploadFailure"}
  /\ N = 2
  /\ calls["readBinary:file"] = 2
  /\ attempt = <<"posted", "unreadable">>

----------------------------------------------------------------------------
\* Lazy components

Comps == 1..Len(Lazy.comps)

\* the mount that the callback of line 30 has made on the loaded component
LoadedMount(comp) ==
  IF comp.atResolve # <<>> THEN <<Call("mount", comp.atResolve[1])>> ELSE <<>>

\* after the callback, the loaded component has received the callback's
\* mount and then every call made on the component, and nothing before
GoesToReal(comp) ==
  /\ comp.resolved => comp.real = LoadedMount(comp) \o comp.direct
  /\ ~comp.resolved => comp.real = <<>> /\ comp.direct = <<>>

C29_AsStated ==
  probe # <<>> =>
    \A id \in 1..Len(Lazy.portals) :
      Lazy.comps[Lazy.portals[id].owner].resolved => Lazy.portals[id].destroyed

\* C30: load() is made at most once however many components are converted:
\* the first convert puts its promise into load.current, and every component
\* is subscribed to that promise, whatever state it is in.
C30_LoadedOnce ==
  probe # <<>> =>
    /\ Len(Lazy.promises) <= 1
    /\ Lazy.comps = <<>> => Lazy.current = 0 /\ Lazy.promises = <<>>
    /\ Lazy.comps # <<>> =>
         /\ Lazy.current = 1 /\ Len(Lazy.promises) = 1
         /\ Lazy.comps[1].found = "undefined"
         /\ \A c \in Comps : Lazy.comps[c].promise = 1
         /\ \A c \in Comps \ {1} : Lazy.comps[c].found # "undefined"

\* a second component converted after the load was rejected
C30_Witness ==
  /\ probe # <<>>
  /\ Len(Lazy.comps) = 2
  /\ Lazy.promises = <<"rejected">>
  /\ Lazy.comps[2].found = "rejected"
  /\ Lazy.comps[2].promise = 1

----------------------------------------------------------------------------
\* Angular modules

\* the entries of runningModules for module m
EntriesOf(m) == {k \in 1..Len(Ng.runningModules) : Ng.runningModules[k].ref = m}

\* a call for a running module has returned the instance of the module's
\* entry and has put its props into the entry, and a failed bootstrap has
\* returned no instance
ReturnedRunning ==
  Ng.returned # <<>> =>
    LET r == Ng.returned[1]
    IN  /\ r.how = "running" =>
             \E k \in EntriesOf(r.ref) :
               /\ Ng.runningModules[k].instance = r.instance
               /\ Ng.runningModules[k].Props = r.props
        /\ r.how = "failed" => r.instance = 0
        /\ r.how = "bootstrapped" =>
             \E k \in EntriesOf(r.ref) : Ng.runningModules[k].instance = r.instance

\* C31: whatever calls of startup are made and however they interleave, each
\* BootstrapModule is bootstrapped at most once and has at most one entry in
\* runningModules; a call for a running module returns the existing instance
\* with its Props provider set to the new props, and a failed bootstrap
\* leaves no entry.
C31_AsStated ==
  probe # <<>> =>
    /\ \A m \in BootstrapModules :
         /\ Ng.bootstrapped[m] <= 1
         /\ Cardinality(EntriesOf(m)) <= 1
    /\ Len(Ng.runningModules) <= Ng.instances
    /\ ReturnedRunning

====
